---- MODULE Spec2Model ----
(***************************************************************************)
(* LlamaStackClientProvider (agentops/llms/llama_stack_client.py): the     *)
(* response normalizer handle_response with its two per-fragment handlers, *)
(* the pass-through generators, and the patched library entry points.      *)
(*                                                                         *)
(* Text is a sequence of characters, so that concatenation (+=) is \o.     *)
(* A fragment taken from the underlying sequence is an object on `heap';   *)
(* `source' keeps the content each fragment had when the library produced  *)
(* it.  llm_event.returns is a reference into the heap (Python aliasing).  *)
(***************************************************************************)
EXTENDS Integers, Sequences, FiniteSets, TLC

\* ----------------------------------------------------------------- bounds
\* Longest fragment sequence the underlying library call delivers.
MaxFrags == 3
\* override() / undo_override() calls made before the library call.
MaxOps == 3
\* Fragments taken per call when two calls are iterated concurrently.
MaxFragsEach == 2

\* ----------------------------------------------------------------- values
PyNone == "None"
Chars == {"a", "b"}
\* The incremental text of one fragment: empty or one character.
Deltas == {<<>>} \cup {<<c>> : c \in Chars}

NoText == [some |-> FALSE, v |-> <<>>]
SomeText(t) == [some |-> TRUE, v |-> t]
\* Python truthiness of an optional string: None and "" are falsy.
Truthy(c) == c.some /\ c.v # <<>>

\* A message of the call arguments: an object with content/role attributes
\* or a mapping record with content/role keys.
MsgShapes == {"obj", "dict"}
Messages == [shape : MsgShapes, content : {"hi"}, role : {"user"}]
MessageLists == {<<m>> : m \in Messages}

ModelIds == {"m1"}
Sessions == {PyNone, "s1"}

\* metadata: {} or {"model_id": v}, v a model name or None.
NoMetadata == [has |-> FALSE, model_id |-> PyNone]
MetadataOf(v) == [has |-> TRUE, model_id |-> v]

\* ------------------------------------------------------------- fragments
Chunk(sh, et, st, d) == [shape |-> sh, event_type |-> et, step_type |-> st, delta |-> d]

\* Fragments of a synchronous chat_completion stream: chunk.event with
\* delta and event_type, or a fragment lacking one of the attributes.
SyncChunks ==
       {Chunk("ok", et, "", d) : et \in {"progress", "complete"}, d \in Deltas}
  \cup {Chunk("noevent", "", "", <<>>)}
  \cup {Chunk("nodelta", "progress", "", <<>>)}
  \cup {Chunk("notype", "", "", <<"a">>)}

\* Fragments of an asynchronous create_turn stream: chunk.event.payload with
\* event_type, and for step_progress step_type and text_delta_model_response.
AsyncChunks ==
       {Chunk("ok", et, "", <<>>) :
           et \in {"step_start", "turn_start", "step_complete", "turn_complete", "other"}}
  \cup {Chunk("ok", "step_progress", "tool_execution", <<>>)}
  \cup {Chunk("ok", "step_progress", "inference", d) : d \in Deltas}
  \cup {Chunk("noevent", "", "", <<>>)}
  \cup {Chunk("nopayload", "", "", <<>>)}
  \cup {Chunk("nosteptype", "step_progress", "", <<>>)}
  \cup {Chunk("nodelta", "step_progress", "inference", <<>>)}

\* chunk.event exists
HasEvent(c) == c.shape # "noevent"
\* chunk.event.payload exists
HasPayload(c) == c.shape \notin {"noevent", "nopayload"}
\* chunk.event.delta exists (synchronous fragments)
HasDelta(c) == c.shape \notin {"noevent", "nodelta"}
\* chunk.event.event_type exists (synchronous fragments)
HasEventType(c) == c.shape \notin {"noevent", "nodelta", "notype"}

\* A buffered response: response.completion_message.content, or an object
\* without completion_message.
Responses ==
       {[shape |-> "ok", content |-> d] : d \in Deltas}
  \cup {[shape |-> "nocompletion", content |-> <<>>]}
NoResponse == [shape |-> "none", content |-> <<>>]

\* ---------------------------------------------------------------- events
NoRef == [kind |-> "None", idx |-> 0]
ChunkEventRef(i) == [kind |-> "chunk_event", idx |-> i]
ResponseRef == [kind |-> "response", idx |-> 0]

NoPrompt == [kind |-> "None", msgs |-> <<>>]
\* llm_event.prompt = kwargs["messages"]: the caller's list itself.
RawPrompt(msgs) == [kind |-> "raw", msgs |-> msgs]
\* [{"content": m.content, "role": m.role} for m in messages]
NormalizedPrompt(msgs) ==
  [kind |-> "normalized",
   msgs |-> [i \in 1..Len(msgs) |-> [content |-> msgs[i].content, role |-> msgs[i].role]]]

get_ISO_time == "ISO"
check_call_stack_for_agent_id == PyNone

\* An event that never takes the session's identifier.
LLMEventNoSession(session) ==
  [init_timestamp |-> get_ISO_time,
   session_id |-> PyNone,
   returns |-> NoRef,
   agent_id |-> PyNone,
   model |-> PyNone,
   prompt |-> NoPrompt,
   completion |-> NoText,
   prompt_tokens |-> PyNone,
   completion_tokens |-> PyNone,
   end_timestamp |-> PyNone]

\* LLMEvent(init_timestamp=..., params=kwargs), session_id set from the session.
LLMEvent(session) ==
  [init_timestamp |-> get_ISO_time,
   session_id |-> session,
   returns |-> NoRef,
   agent_id |-> PyNone,
   model |-> PyNone,
   prompt |-> NoPrompt,
   completion |-> NoText,
   prompt_tokens |-> PyNone,
   completion_tokens |-> PyNone,
   end_timestamp |-> PyNone]

\* What the recorder is handed: the event as it is at that moment.
LLMRecord(ev) == [kind |-> "llm", event |-> ev, exception |-> PyNone]
ErrorEvent(ev, exc) == [kind |-> "error", event |-> ev, exception |-> exc]
_safe_record(recd, session, event) ==
  Append(recd, [session |-> session, kind |-> event.kind,
                event |-> event.event, exception |-> event.exception])

AllObjects(msgs) == \A i \in 1..Len(msgs) : msgs[i].shape = "obj"
AllMappings(msgs) == \A i \in 1..Len(msgs) : msgs[i].shape = "dict"

\* -------------------------------------------------- per-fragment handlers
\* The outcome of handling one fragment: the call record, the heap of
\* fragment objects, the recorder's log, and whether a fault left the handler.
Handled(ev, heap, recd) == [ev |-> ev, heap |-> heap, recorded |-> recd, raised |-> FALSE]
Propagated(ev, heap, recd) == [ev |-> ev, heap |-> heap, recorded |-> recd, raised |-> TRUE]
\* Caught with the fault re-raised from the except clause instead of recorded.
CaughtReraises(ev, heap, recd, session, exc) == Propagated(ev, heap, recd)

\* except Exception as e: self._safe_record(session, ErrorEvent(trigger_event=llm_event, exception=e))
Caught(ev, heap, recd, session, exc) ==
  Handled(ev, heap, _safe_record(recd, session, ErrorEvent(ev, exc)))

\* if llm_event.returns is None: llm_event.returns = chunk.event
\* (before the try: a fragment without an event attribute raises here)
SeedReturns(ev, i) ==
  IF ev.returns.kind = "None" THEN [ev EXCEPT !.returns = ChunkEventRef(i)] ELSE ev

\* llm_event.returns.delta += choice.delta, guarded by `if choice.delta'
AppendDelta(heap, r, d) ==
  IF d # <<>> THEN [heap EXCEPT ![r].delta = heap[r].delta \o d] ELSE heap

\* IsComplete with the tag not compared to the sentinel: every tagged fragment finalizes.
IsCompleteAnyTag(chunk) == chunk.event_type \in {"progress", "complete"}

\* if choice.event_type == "complete"
IsComplete(chunk) == chunk.event_type = "complete"

\* IsInference with the step type of a step_progress not looked at.
IsInferenceAnyStep(chunk) == TRUE

\* if (chunk.event.payload.step_type == "inference")
IsInference(chunk) == chunk.step_type = "inference"

\* The `complete' branch of handle_stream_chunk.
FinalizeChunk(ev, heap, recd, kw, session, accumulated_delta) ==
  IF ~AllObjects(kw.messages)
  THEN Caught(ev, heap, recd, session, "AttributeError")
  ELSE LET done == [ev EXCEPT !.prompt = NormalizedPrompt(kw.messages),
                              !.agent_id = check_call_stack_for_agent_id,
                              !.completion = SomeText(accumulated_delta),
                              !.prompt_tokens = PyNone,
                              !.completion_tokens = PyNone,
                              !.end_timestamp = get_ISO_time]
       IN Handled(done, heap, _safe_record(recd, session, LLMRecord(done)))

handle_stream_chunk(ev0, heap, recd, kw, session, i) ==
  LET chunk == heap[i] IN
  IF ev0.returns.kind = "None" /\ ~HasEvent(chunk)
  THEN Propagated(ev0, heap, recd)
  ELSE
    LET ev1 == SeedReturns(ev0, i)
        r == ev1.returns.idx
    IN
    IF ~HasDelta(heap[r])
    THEN Caught(ev1, heap, recd, session, "AttributeError")
    ELSE
      LET accumulated_delta == heap[r].delta
          ev2 == [ev1 EXCEPT !.agent_id = check_call_stack_for_agent_id,
                             !.model = kw.model_id,
                             !.prompt = RawPrompt(kw.messages)]
      IN
      IF ~HasDelta(chunk)
      THEN Caught(ev2, heap, recd, session, "AttributeError")
      ELSE
        LET heap2 == AppendDelta(heap, r, chunk.delta) IN
        IF ~HasEventType(chunk)
        THEN Caught(ev2, heap2, recd, session, "AttributeError")
        ELSE IF IsComplete(chunk)
             THEN FinalizeChunk(ev2, heap2, recd, kw, session, accumulated_delta)
             ELSE Handled(ev2, heap2, recd)

\* The step_progress / inference branch of handle_stream_agent.
AccumulateInference(ev, kw, delta) ==
  [ev EXCEPT !.agent_id = check_call_stack_for_agent_id,
             !.model = "Llama Stack",
             !.prompt = RawPrompt(kw.messages),
             !.completion = IF Truthy(ev.completion)
                            THEN SomeText(ev.completion.v \o delta)
                            ELSE SomeText(delta)]

\* metadata.get("model_id", "Unable to identify model")
MetadataModel(md) == IF md.has THEN md.model_id ELSE "Unable to identify model"

\* The turn_complete branch of handle_stream_agent.
FinalizeTurn(ev, heap, recd, kw, session, md) ==
  IF ~AllMappings(kw.messages)
  THEN Caught(ev, heap, recd, session, "TypeError")
  ELSE LET done == [ev EXCEPT !.prompt = NormalizedPrompt(kw.messages),
                              !.agent_id = check_call_stack_for_agent_id,
                              !.model = MetadataModel(md),
                              !.prompt_tokens = PyNone,
                              !.completion_tokens = PyNone,
                              !.end_timestamp = get_ISO_time]
       IN Handled(done, heap, _safe_record(recd, session, LLMRecord(done)))

handle_stream_agent(ev0, heap, recd, kw, session, md, i) ==
  LET chunk == heap[i] IN
  IF ev0.returns.kind = "None" /\ ~HasEvent(chunk)
  THEN Propagated(ev0, heap, recd)
  ELSE
    LET ev1 == SeedReturns(ev0, i) IN
    IF ~HasPayload(chunk)
    THEN Caught(ev1, heap, recd, session, "AttributeError")
    ELSE
      CASE chunk.event_type = "step_start" -> Handled(ev1, heap, recd)
        [] chunk.event_type = "turn_start" -> Handled(ev1, heap, recd)
        [] chunk.event_type = "step_progress" ->
             IF chunk.shape = "nosteptype"
             THEN Caught(ev1, heap, recd, session, "AttributeError")
             ELSE IF IsInference(chunk)
                  THEN IF chunk.shape = "nodelta"
                       THEN Caught(ev1, heap, recd, session, "AttributeError")
                       ELSE Handled(AccumulateInference(ev1, kw, chunk.delta), heap, recd)
                  ELSE Handled(ev1, heap, recd)
        [] chunk.event_type = "step_complete" -> Handled(ev1, heap, recd)
        [] chunk.event_type = "turn_complete" ->
             FinalizeTurn(ev1, heap, recd, kw, session, md)
        [] OTHER -> Handled(ev1, heap, recd)

\* ------------------------------------------------- the buffered branch
\* pprint.pformat(response): a string describing the response, not the response.
pformat(response) == [kind |-> "str", of |-> response]
Returned(response) == [kind |-> "response", of |-> response]
NoResult == [kind |-> "none", of |-> NoResponse]
GeneratorResult == [kind |-> "generator", of |-> NoResponse]
AsyncGeneratorResult == [kind |-> "async_generator", of |-> NoResponse]

\* The outcome of handle_response on a buffered response: the call record,
\* the recorder's log and the value returned to the caller.
BufferedFault(ev, recd, session, response, exc) ==
  [ev |-> ev,
   recorded |-> _safe_record(recd, session, ErrorEvent(ev, exc)),
   result |-> pformat(response)]

handle_buffered(ev0, recd, response, kw, session, md) ==
  LET ev1 == [ev0 EXCEPT !.returns = ResponseRef,
                         !.agent_id = check_call_stack_for_agent_id]
  IN
  IF ~md.has
  THEN BufferedFault(ev1, recd, session, response, "KeyError")
  ELSE
    LET ev2 == [ev1 EXCEPT !.model = md.model_id] IN
    IF ~AllObjects(kw.messages)
    THEN BufferedFault(ev2, recd, session, response, "AttributeError")
    ELSE
      LET ev3 == [ev2 EXCEPT !.prompt = NormalizedPrompt(kw.messages),
                             !.prompt_tokens = PyNone]
      IN
      IF response.shape # "ok"
      THEN BufferedFault(ev3, recd, session, response, "AttributeError")
      ELSE
        LET done == [ev3 EXCEPT !.completion = SomeText(response.content),
                                !.completion_tokens = PyNone,
                                !.end_timestamp = get_ISO_time]
        IN [ev |-> done,
            recorded |-> _safe_record(recd, session, LLMRecord(done)),
            result |-> Returned(response)]

\* ----------------------------------------------------------------- state
VARIABLES
  pc,         \* "idle", "iter" (wrapped sequence suspended), "handled" (fragment
              \* handled, about to be yielded), "done", "raised", "abandoned"
  entry,      \* the entry point the call came through
  kwargs,     \* the call's keyword arguments, the session key removed
  metadata,   \* handle_response's metadata argument
  session,    \* the session's id, or None
  response,   \* the buffered response the library returned (NoResponse for a stream)
  llm_event,  \* the call record
  recorded,   \* what _safe_record was handed, in order
  source,     \* the fragments taken from the underlying sequence, as produced
  heap,       \* the same fragment objects, as they are now
  yielded,    \* references of the fragments yielded to the caller, in order
  result,     \* what the call returned to the caller
  chat_completion,       \* what InferenceResource.chat_completion is bound to
  create_turn,           \* what Agent.create_turn is bound to
  original_complete,     \* the module global original_complete
  original_create_turn,  \* the module global original_create_turn
  ops,                   \* the override() / undo_override() calls made, in order
  original_calls,        \* how often the call ran the library's own function
  calls,      \* concurrent calls: each call's own state
  log         \* concurrent calls: the recorder they share

callVars == <<pc, entry, kwargs, metadata, session, response, llm_event, recorded,
              source, heap, yielded, result>>
bindingVars == <<chat_completion, create_turn, original_complete,
                 original_create_turn, ops>>
concurrentVars == <<calls, log>>
vars == <<callVars, bindingVars, original_calls, concurrentVars>>

NoKwargs == [stream |-> FALSE, model_id |-> PyNone, messages |-> <<>>]

\* The class attributes original_complete and original_create_turn of
\* LlamaStackClientProvider: None, and never assigned.
self_original_complete == PyNone
self_original_create_turn == PyNone

\* Two calls outstanding at once, each with its own handle_response
\* invocation: its own kwargs, session, metadata, call record and stream.
Calls == {1, 2}
IdleCall ==
  [pc |-> "idle", kind |-> PyNone, kwargs |-> NoKwargs, metadata |-> NoMetadata,
   session |-> PyNone, llm_event |-> LLMEvent(PyNone), source |-> <<>>,
   heap |-> <<>>, yielded |-> <<>>, emitted |-> <<>>]
NoCalls == [c \in Calls |-> IdleCall]

\* No call made yet.
CallIdle ==
  /\ pc = "idle"
  /\ entry = PyNone
  /\ kwargs = NoKwargs
  /\ metadata = NoMetadata
  /\ session = PyNone
  /\ response = NoResponse
  /\ llm_event = LLMEvent(PyNone)
  /\ recorded = <<>>
  /\ source = <<>>
  /\ heap = <<>>
  /\ yielded = <<>>
  /\ result = NoResult
  /\ original_calls = 0

\* The provider has been installed once: override() has run on the
\* library's own functions.
Init ==
  /\ CallIdle
  /\ chat_completion = "patched"
  /\ create_turn = "patched"
  /\ original_complete = "original"
  /\ original_create_turn = "original"
  /\ ops = <<"override">>
  /\ calls = NoCalls
  /\ log = <<>>

\* handle_response(response, kwargs, init_timestamp, session, metadata):
\* kind is what the library returned: "sync" (an iterator, stream=True),
\* "async" (an async generator) or "buffered" (one response object).
handle_response(kind, resp, kw, s, md) ==
  /\ kwargs' = kw
  /\ metadata' = md
  /\ session' = s
  /\ response' = resp
  /\ UNCHANGED <<source, heap, yielded>>
  /\ IF kw.stream
     THEN /\ llm_event' = LLMEvent(s)
          /\ result' = GeneratorResult
          /\ pc' = "iter"
          /\ UNCHANGED recorded
     ELSE IF kind = "async"
     THEN /\ llm_event' = LLMEvent(s)
          /\ result' = AsyncGeneratorResult
          /\ pc' = "iter"
          /\ UNCHANGED recorded
     ELSE LET out == handle_buffered(LLMEvent(s), recorded, resp, kw, s, md) IN
          /\ llm_event' = out.ev
          /\ recorded' = out.recorded
          /\ result' = out.result
          /\ pc' = "done"

\* InferenceResource.chat_completion as patched by _override_complete:
\* handle_response is called without metadata.
CallChatCompletion(msgs, m, s, stream, resp) ==
  /\ pc = "idle"
  /\ entry' = "chat_completion"
  /\ original_calls' = original_calls + 1
  /\ handle_response(IF stream THEN "sync" ELSE "buffered",
                     IF stream THEN NoResponse ELSE resp,
                     [stream |-> stream, model_id |-> m, messages |-> msgs],
                     s, NoMetadata)
  /\ UNCHANGED <<bindingVars, concurrentVars>>

\* Agent.create_turn as patched by _override_create_turn: the library returns
\* an async generator; metadata carries agent_config.get("model").
CallCreateTurn(msgs, cfgModel, s) ==
  /\ pc = "idle"
  /\ entry' = "create_turn"
  /\ original_calls' = original_calls + 1
  /\ handle_response("async", NoResponse,
                     [stream |-> FALSE, model_id |-> PyNone, messages |-> msgs],
                     s, MetadataOf(cfgModel))
  /\ UNCHANGED <<bindingVars, concurrentVars>>

\* handle_response called by another caller of the provider, on a buffered
\* response or an async generator: with the default metadata ({}), or, for a
\* buffered response, with a model_id (an async generator with a model_id in
\* metadata is what CallCreateTurn passes).
DirectMetadata == {NoMetadata} \cup {MetadataOf(m) : m \in ModelIds}

CallHandleResponse(kind, msgs, s, md, resp) ==
  /\ pc = "idle"
  /\ kind = "async" => md = NoMetadata
  /\ entry' = "handle_response"
  /\ handle_response(kind,
                     IF kind = "buffered" THEN resp ELSE NoResponse,
                     [stream |-> FALSE, model_id |-> PyNone, messages |-> msgs],
                     s, md)
  /\ UNCHANGED <<bindingVars, original_calls, concurrentVars>>

\* A generator that reads ahead: the fragment is handled and the next one is
\* taken without the handled one having been yielded.
GenNextEager(chunk) ==
  /\ pc = "iter"
  /\ result.kind = "generator"
  /\ Len(source) < MaxFrags
  /\ LET out == handle_stream_chunk(llm_event, Append(heap, chunk), recorded,
                                    kwargs, session, Len(heap) + 1)
     IN /\ llm_event' = out.ev
        /\ heap' = out.heap
        /\ recorded' = out.recorded
        /\ pc' = IF out.raised THEN "raised" ELSE "iter"
  /\ source' = Append(source, chunk)
  /\ UNCHANGED <<entry, kwargs, metadata, session, response, yielded, result>>
  /\ UNCHANGED <<bindingVars, original_calls, concurrentVars>>

\* A generator that yields the fragment before handling it: when the handler
\* runs the caller already holds the fragment.
GenNextYieldsFirst(chunk) ==
  /\ pc = "iter"
  /\ result.kind = "generator"
  /\ Len(source) < MaxFrags
  /\ LET out == handle_stream_chunk(llm_event, Append(heap, chunk), recorded,
                                    kwargs, session, Len(heap) + 1)
     IN /\ llm_event' = out.ev
        /\ heap' = out.heap
        /\ recorded' = out.recorded
        /\ pc' = IF out.raised THEN "raised" ELSE "iter"
        /\ yielded' = IF out.raised THEN yielded ELSE Append(yielded, Len(heap) + 1)
  /\ source' = Append(source, chunk)
  /\ UNCHANGED <<entry, kwargs, metadata, session, response, result>>
  /\ UNCHANGED <<bindingVars, original_calls, concurrentVars>>

\* generator(): for chunk in response: handle_stream_chunk(chunk)
GenNext(chunk) ==
  /\ pc = "iter"
  /\ result.kind = "generator"
  /\ Len(source) < MaxFrags
  /\ LET out == handle_stream_chunk(llm_event, Append(heap, chunk), recorded,
                                    kwargs, session, Len(heap) + 1)
     IN /\ llm_event' = out.ev
        /\ heap' = out.heap
        /\ recorded' = out.recorded
        /\ pc' = IF out.raised THEN "raised" ELSE "handled"
  /\ source' = Append(source, chunk)
  /\ UNCHANGED <<entry, kwargs, metadata, session, response, yielded, result>>
  /\ UNCHANGED <<bindingVars, original_calls, concurrentVars>>

\* async_generator(): async for chunk in response: handle_stream_agent(chunk)
AsyncGenNext(chunk) ==
  /\ pc = "iter"
  /\ result.kind = "async_generator"
  /\ Len(source) < MaxFrags
  /\ LET out == handle_stream_agent(llm_event, Append(heap, chunk), recorded,
                                    kwargs, session, metadata, Len(heap) + 1)
     IN /\ llm_event' = out.ev
        /\ heap' = out.heap
        /\ recorded' = out.recorded
        /\ pc' = IF out.raised THEN "raised" ELSE "handled"
  /\ source' = Append(source, chunk)
  /\ UNCHANGED <<entry, kwargs, metadata, session, response, yielded, result>>
  /\ UNCHANGED <<bindingVars, original_calls, concurrentVars>>

\* yield chunk
GenYield ==
  /\ pc = "handled"
  /\ yielded' = Append(yielded, Len(heap))
  /\ pc' = "iter"
  /\ UNCHANGED <<entry, kwargs, metadata, session, response, llm_event, recorded,
                 source, heap, result>>
  /\ UNCHANGED <<bindingVars, original_calls, concurrentVars>>

\* The underlying sequence is exhausted: the wrapped sequence ends with it.
GenExhausted ==
  /\ pc = "iter"
  /\ pc' = "done"
  /\ UNCHANGED <<entry, kwargs, metadata, session, response, llm_event, recorded,
                 source, heap, yielded, result>>
  /\ UNCHANGED <<bindingVars, original_calls, concurrentVars>>

\* The caller stops iterating the wrapped sequence.
Abandon ==
  /\ pc = "iter"
  /\ pc' = "abandoned"
  /\ UNCHANGED <<entry, kwargs, metadata, session, response, llm_event, recorded,
                 source, heap, yielded, result>>
  /\ UNCHANGED <<bindingVars, original_calls, concurrentVars>>

Next ==
  \/ \E msgs \in MessageLists, m \in ModelIds, s \in Sessions,
        stream \in BOOLEAN, resp \in Responses :
       CallChatCompletion(msgs, m, s, stream, resp)
  \/ \E msgs \in MessageLists, cfgModel \in ModelIds \cup {PyNone}, s \in Sessions :
       CallCreateTurn(msgs, cfgModel, s)
  \/ \E kind \in {"buffered", "async"}, msgs \in MessageLists, s \in Sessions,
        md \in DirectMetadata, resp \in Responses :
       CallHandleResponse(kind, msgs, s, md, resp)
  \/ \E chunk \in SyncChunks : GenNext(chunk)
  \/ \E chunk \in AsyncChunks : AsyncGenNext(chunk)
  \/ GenYield
  \/ GenExhausted
  \/ Abandon

Spec == Init /\ [][Next]_vars

\* ------------------------------------------------ override / undo_override
\* What the library hands back when its own function is called unwrapped.
LibraryStream == [kind |-> "library_stream", of |-> NoResponse]

\* _override_complete(): global original_complete = InferenceResource.chat_completion;
\* InferenceResource.chat_completion = patched_function.
_override_complete ==
  /\ original_complete' = chat_completion
  /\ chat_completion' = "patched"

\* _override_create_turn(): the same for Agent.create_turn.
_override_create_turn ==
  /\ original_create_turn' = create_turn
  /\ create_turn' = "patched"

override ==
  /\ pc = "idle"
  /\ Len(ops) < MaxOps
  /\ _override_complete
  /\ _override_create_turn
  /\ ops' = Append(ops, "override")
  /\ UNCHANGED <<callVars, original_calls, concurrentVars>>

\* undo_override() restores from the class attributes, not from the globals
\* _override_complete and _override_create_turn assigned.
undo_override ==
  /\ pc = "idle"
  /\ Len(ops) < MaxOps
  /\ chat_completion' = IF self_original_complete # PyNone
                        THEN self_original_complete ELSE chat_completion
  /\ create_turn' = IF self_original_create_turn # PyNone
                    THEN self_original_create_turn ELSE create_turn
  /\ ops' = Append(ops, "undo_override")
  /\ UNCHANGED <<original_complete, original_create_turn>>
  /\ UNCHANGED <<callVars, original_calls, concurrentVars>>

\* The library's own function, called directly: the provider sees nothing.
LibraryOnly(name, res) ==
  /\ entry' = name
  /\ original_calls' = original_calls + 1
  /\ result' = res
  /\ pc' = "done"
  /\ UNCHANGED <<kwargs, metadata, session, response, llm_event, recorded,
                 source, heap, yielded>>
  /\ UNCHANGED <<bindingVars, concurrentVars>>

\* patched_function looks original_complete (original_create_turn) up in the
\* module globals when it runs; when the global holds a patched function the
\* call re-enters patched_function until RecursionError, which it does not
\* catch.
RecursionError(name) ==
  /\ entry' = name
  /\ pc' = "raised"
  /\ UNCHANGED <<kwargs, metadata, session, response, llm_event, recorded,
                 source, heap, yielded, result>>
  /\ UNCHANGED <<bindingVars, original_calls, concurrentVars>>

\* client.inference.chat_completion(...): whatever the attribute is bound to.
InferenceResource_chat_completion(msgs, m, s, stream, resp) ==
  /\ pc = "idle"
  /\ IF chat_completion = "original"
     THEN LibraryOnly("chat_completion",
                      IF stream THEN LibraryStream ELSE Returned(resp))
     ELSE IF original_complete = "patched"
     THEN RecursionError("chat_completion")
     ELSE CallChatCompletion(msgs, m, s, stream, resp)

\* agent.create_turn(...): whatever the attribute is bound to.
Agent_create_turn(msgs, cfgModel, s) ==
  /\ pc = "idle"
  /\ IF create_turn = "original"
     THEN LibraryOnly("create_turn", LibraryStream)
     ELSE IF original_create_turn = "patched"
     THEN RecursionError("create_turn")
     ELSE CallCreateTurn(msgs, cfgModel, s)

\* The library as imported: nothing patched, the globals not yet assigned.
OverrideInit ==
  /\ CallIdle
  /\ chat_completion = "original"
  /\ create_turn = "original"
  /\ original_complete = PyNone
  /\ original_create_turn = PyNone
  /\ ops = <<>>
  /\ calls = NoCalls
  /\ log = <<>>

OverrideNext ==
  \/ override
  \/ undo_override
  \/ \E msgs \in MessageLists, m \in ModelIds, s \in Sessions,
        stream \in BOOLEAN, resp \in Responses :
       InferenceResource_chat_completion(msgs, m, s, stream, resp)
  \/ \E msgs \in MessageLists, cfgModel \in ModelIds \cup {PyNone}, s \in Sessions :
       Agent_create_turn(msgs, cfgModel, s)

OverrideSpec == OverrideInit /\ [][OverrideNext]_vars

\* ------------------------------------------------------- concurrent calls
\* The fragments the concurrent calls draw from: for each kind of stream a
\* progress fragment, a terminal one, and one without an event (its fault
\* leaves the handler on a first fragment and is caught on a later one).
ConcurrentSyncChunks ==
  {Chunk("ok", "progress", "", <<"a">>), Chunk("ok", "complete", "", <<"b">>),
   Chunk("noevent", "", "", <<>>)}
ConcurrentAsyncChunks ==
  {Chunk("ok", "step_progress", "inference", <<"a">>),
   Chunk("ok", "turn_complete", "", <<>>),
   Chunk("noevent", "", "", <<>>)}

\* A record on the provider, shared by every call.
SharedRecord(cs, c) == cs[1].llm_event

\* llm_event is a local of the handle_response invocation, captured by that
\* invocation's handlers: each call has its own.
CallRecord(cs, c) == cs[c].llm_event

\* handle_response on a stream (chat_completion with stream=True: "sync";
\* create_turn: "async") for call c, the messages in the shape the entry
\* point's callers pass.
StartCall(c, kind, msgs, m, s) ==
  /\ calls[c].pc = "idle"
  /\ IF kind = "sync" THEN AllObjects(msgs) ELSE AllMappings(msgs)
  /\ calls' = [calls EXCEPT ![c] =
       [IdleCall EXCEPT
          !.pc = "iter",
          !.kind = kind,
          !.kwargs = [stream |-> kind = "sync",
                      model_id |-> IF kind = "sync" THEN m ELSE PyNone,
                      messages |-> msgs],
          !.metadata = IF kind = "sync" THEN NoMetadata ELSE MetadataOf(m),
          !.session = s,
          !.llm_event = LLMEvent(s)]]
  /\ UNCHANGED log
  /\ UNCHANGED <<callVars, bindingVars, original_calls>>

\* One fragment of call c's stream taken and handled; the handler records to
\* the recorder all calls share.
CallNext(c, chunk) ==
  LET cl == calls[c]
      out == IF cl.kind = "sync"
             THEN handle_stream_chunk(CallRecord(calls, c), Append(cl.heap, chunk),
                                      log, cl.kwargs, cl.session, Len(cl.heap) + 1)
             ELSE handle_stream_agent(CallRecord(calls, c), Append(cl.heap, chunk),
                                      log, cl.kwargs, cl.session, cl.metadata,
                                      Len(cl.heap) + 1)
  IN /\ cl.pc = "iter"
     /\ Len(cl.source) < MaxFragsEach
     /\ chunk \in IF cl.kind = "sync" THEN ConcurrentSyncChunks
                                     ELSE ConcurrentAsyncChunks
     /\ calls' = [calls EXCEPT ![c] =
          [cl EXCEPT !.llm_event = out.ev,
                     !.heap = out.heap,
                     !.source = Append(cl.source, chunk),
                     !.emitted = cl.emitted \o SubSeq(out.recorded, Len(log) + 1,
                                                      Len(out.recorded)),
                     !.pc = IF out.raised THEN "raised" ELSE "handled"]]
     /\ log' = out.recorded
     /\ UNCHANGED <<callVars, bindingVars, original_calls>>

\* yield chunk, in call c's generator.
CallYield(c) ==
  /\ calls[c].pc = "handled"
  /\ calls' = [calls EXCEPT ![c].pc = "iter",
                            ![c].yielded = Append(@, Len(calls[c].heap))]
  /\ UNCHANGED log
  /\ UNCHANGED <<callVars, bindingVars, original_calls>>

ConcurrentNext ==
  \/ \E c \in Calls, kind \in {"sync", "async"}, msgs \in MessageLists,
        m \in ModelIds, s \in Sessions :
       StartCall(c, kind, msgs, m, s)
  \/ \E c \in Calls, chunk \in ConcurrentSyncChunks \cup ConcurrentAsyncChunks :
       CallNext(c, chunk)
  \/ \E c \in Calls : CallYield(c)

ConcurrentSpec == Init /\ [][ConcurrentNext]_vars

\* ------------------------------------------------------------ properties
LLMEvents(recd) == SelectSeq(recd, LAMBDA e : e.kind = "llm")
ErrorEvents(recd) == SelectSeq(recd, LAMBDA e : e.kind = "error")

RECURSIVE Concat(_)
Concat(ts) == IF ts = <<>> THEN <<>> ELSE Head(ts) \o Concat(Tail(ts))

\* The deltas of the fragments of a synchronous stream, in delivery order
\* (a fragment without a delta contributes nothing).
SyncDeltas(src) ==
  [i \in 1..Len(src) |-> IF HasDelta(src[i]) THEN src[i].delta ELSE <<>>]
\* text_delta_model_response of the step_progress / inference fragments.
InferenceDeltas(src) ==
  LET inf == SelectSeq(src, LAMBDA c : c.shape = "ok" /\ c.event_type = "step_progress"
                                        /\ c.step_type = "inference")
  IN [i \in 1..Len(inf) |-> inf[i].delta]

IsSync == result.kind = "generator"
IsAsync == result.kind = "async_generator"
IsBuffered == result.kind \in {"response", "str"}
Last(seq) == seq[Len(seq)]
\* The fragment a step of the wrapped sequence has just taken and handled.
JustHandled == pc = "handled" /\ Len(source) > 0
EmittedNow == Len(recorded) > 0 /\ Last(recorded).kind = "llm"

\* C1: every buffered response handled by handle_response, the patched
\* chat_completion included, leaves exactly one LLM event with the recorder,
\* whose completion is response.completion_message.content.
C1_BufferedExactlyOneEvent ==
  (pc = "done" /\ IsBuffered /\ response.shape = "ok") =>
    /\ Len(LLMEvents(recorded)) = 1
    /\ LLMEvents(recorded)[1].event.completion = SomeText(response.content)

\* C2: when a synchronous stream reaches a fragment tagged complete, the
\* completion of the emitted LLM event is the concatenation, in delivery
\* order, of the deltas of all fragments up to and including that fragment.
C2_SyncCompletionIsConcatenation ==
  (IsSync /\ JustHandled /\ Last(source).shape = "ok"
     /\ Last(source).event_type = "complete" /\ EmittedNow) =>
    Last(recorded).event.completion = SomeText(Concat(SyncDeltas(source)))

\* C3: when an asynchronous stream reaches turn_complete, the completion of
\* the emitted LLM event is the concatenation, in delivery order, of
\* text_delta_model_response over the step_progress / inference fragments.
C3_AsyncCompletionIsInferenceConcatenation ==
  (IsAsync /\ JustHandled /\ Last(source).shape = "ok"
     /\ Last(source).event_type = "turn_complete" /\ EmittedNow) =>
    Last(recorded).event.completion = SomeText(Concat(InferenceDeltas(source)))

\* C4: the LLM event of one call is handed to the recorder at most once,
\* whatever fragments follow the first terminal fragment.
C4_AtMostOneLLMEvent == Len(LLMEvents(recorded)) <= 1

\* C5: the wrapped sequence yields every fragment of the underlying sequence,
\* in the original order, as the same object with unchanged content.
C5_FragmentsYieldedUnchanged ==
  /\ \A i \in 1..Len(yielded) : yielded[i] = i /\ heap[i] = source[i]
  /\ pc \in {"iter", "done", "abandoned"} => Len(yielded) = Len(source)

\* C6: for a buffered result handle_response returns the original response
\* object, whether normalization succeeded or raised a fault that was caught.
C6_BufferedResultIsResponse ==
  (pc = "done" /\ IsBuffered) => result = Returned(response)

\* C7: no fault raised while handling a fragment propagates to the caller
\* iterating the wrapped sequence.
C7_NoFaultPropagates == pc # "raised"

\* A step of the wrapped sequence: one more fragment taken and handled.
TakesFragment == Len(source') = Len(source) + 1
Taken == Last(source')
NoTerminalTaken ==
  \A i \in 1..Len(source) :
    ~(source[i].shape = "ok" /\ source[i].event_type \in {"complete", "turn_complete"})
\* A fragment missing an attribute its handler reads.
ShapeFault(c) == c.shape # "ok"
\* In the middle of a stream: after a well-formed first fragment.
MidStream == Len(source) >= 1 /\ source[1].shape = "ok"
RecordsOneError ==
  /\ Len(recorded') = Len(recorded) + 1
  /\ SubSeq(recorded', 1, Len(recorded)) = recorded
  /\ Last(recorded').kind = "error"
  /\ Last(recorded').event = llm_event'
  /\ Last(recorded').exception # PyNone
EmitsLLMEvent ==
  /\ Len(recorded') = Len(recorded) + 1
  /\ SubSeq(recorded', 1, Len(recorded)) = recorded
  /\ Last(recorded').kind = "llm"
  /\ Last(recorded').event = llm_event'
\* What was accumulated so far is kept, and extended by delta d.
SyncAccumulates(d) ==
  heap'[llm_event.returns.idx].delta = heap[llm_event.returns.idx].delta \o d
AsyncAccumulates(d) == llm_event'.completion.v = llm_event.completion.v \o d

C8_FaultStep ==
  (TakesFragment /\ MidStream /\ ShapeFault(Taken)) =>
    /\ RecordsOneError
    /\ pc' = "handled"
    /\ IsSync => SyncAccumulates(IF Taken.shape = "notype" THEN Taken.delta ELSE <<>>)
    /\ IsAsync => llm_event' = llm_event
C8_LaterStep ==
  (TakesFragment /\ MidStream /\ ErrorEvents(recorded) # <<>> /\ ~ShapeFault(Taken)) =>
    /\ pc' = "handled"
    /\ IsSync =>
         /\ SyncAccumulates(Taken.delta)
         /\ Taken.event_type = "complete" =>
              IF AllObjects(kwargs.messages) THEN EmitsLLMEvent ELSE RecordsOneError
    /\ IsAsync =>
         /\ Taken.step_type = "inference" =>
              /\ AsyncAccumulates(Taken.delta)
              /\ llm_event'.completion.some
         /\ Taken.event_type = "turn_complete" =>
              IF AllMappings(kwargs.messages) THEN EmitsLLMEvent ELSE RecordsOneError

\* C8: a shape fault on a fragment in the middle of a stream records exactly
\* one error event, carrying the partially built LLM event and the fault,
\* keeps what was accumulated, and the stream goes on: a later well-formed
\* fragment appends its delta and a later terminal fragment emits the LLM
\* event (when its finalization reads the messages in the shape they have).
C8_MidStreamFaultIsLocal == [][C8_FaultStep /\ C8_LaterStep]_vars

\* A synchronous stream: a well-formed fragment, a fragment without a delta
\* (one error event), then the terminal fragment, whose delta is still
\* accumulated and which emits the LLM event.
C8_Witness ==
  /\ IsSync /\ pc = "handled" /\ Len(source) = 3
  /\ source[1] = Chunk("ok", "progress", "", <<"a">>)
  /\ source[2].shape = "nodelta"
  /\ source[3] = Chunk("ok", "complete", "", <<"b">>)
  /\ Len(recorded) = 2
  /\ recorded[1].kind = "error" /\ recorded[2].kind = "llm"
  /\ heap[1].delta = <<"a", "a", "b">>

\* C9 as stated: a stream in which no terminal-tagged fragment is processed
\* hands zero events to the recorder.
C9_NoTerminalNoEvents ==
  ((IsSync \/ IsAsync) /\ NoTerminalTaken) => recorded = <<>>

\* C9, amended: a stream in which no terminal-tagged fragment is processed
\* hands no LLM event to the recorder; what it hands over are the error
\* events of fragments whose handling faulted, none when all are well-formed.
C9_NoTerminalNoLLMEvent ==
  ((IsSync \/ IsAsync) /\ NoTerminalTaken) =>
    /\ LLMEvents(recorded) = <<>>
    /\ Len(recorded) <= Len(source)
    /\ (\A i \in 1..Len(source) : ~ShapeFault(source[i])) => recorded = <<>>

\* The caller abandoned an asynchronous stream of two inference fragments and
\* a faulting one before any turn_complete: one error event, no LLM event.
C9_Witness ==
  /\ IsAsync /\ pc = "abandoned" /\ Len(source) = 3 /\ NoTerminalTaken
  /\ llm_event.completion = SomeText(<<"a", "b">>)
  /\ Len(recorded) = 1 /\ recorded[1].kind = "error"

NoOpFragment(c) ==
  /\ c.shape = "ok"
  /\ \/ c.event_type \in {"step_start", "turn_start", "step_complete"}
     \/ c.event_type = "step_progress" /\ c.step_type # "inference"

\* C10 as stated: handling a step_start, turn_start, step_complete or
\* non-inference step_progress fragment changes no field of the call record,
\* at any position, and records nothing.
C10_NoOpChangesNothing ==
  [][(IsAsync /\ TakesFragment /\ NoOpFragment(Taken)) =>
       (llm_event' = llm_event /\ recorded' = recorded)]_vars

\* C10, amended: such a fragment changes no field of the call record other
\* than returns, which is set to the fragment's event when it was still unset
\* (the first fragment), and records nothing.
C10_NoOpOnlySeedsReturns ==
  [][(IsAsync /\ TakesFragment /\ NoOpFragment(Taken)) =>
       /\ llm_event' = [llm_event EXCEPT !.returns =
                          IF @ = NoRef THEN ChunkEventRef(Len(source')) ELSE @]
       /\ recorded' = recorded
       /\ heap' = Append(heap, Taken)]_vars

\* turn_start first, an inference delta, then step_complete: returns still
\* refers to the first fragment and the completion is the one delta.
C10_Witness ==
  /\ IsAsync /\ pc = "handled" /\ Len(source) = 3
  /\ source[1].event_type = "turn_start"
  /\ source[2] = Chunk("ok", "step_progress", "inference", <<"a">>)
  /\ source[3].event_type = "step_complete"
  /\ llm_event.returns = ChunkEventRef(1)
  /\ llm_event.completion = SomeText(<<"a">>)
  /\ recorded = <<>>

\* A well-formed fragment carrying its path's terminal tag.
Terminal(c) == c.shape = "ok" /\ c.event_type \in {"complete", "turn_complete"}
\* The messages have the shape the path's finalization reads.
MessagesFit ==
  IF IsAsync THEN AllMappings(kwargs.messages) ELSE AllObjects(kwargs.messages)
AllRecorded(P(_)) == \A i \in 1..Len(recorded) : P(recorded[i])
AllLLMRecorded(P(_)) ==
  \A i \in 1..Len(recorded) : recorded[i].kind = "llm" => P(recorded[i].event)

\* C11: the LLM event of a chat-completion call made through the patched
\* entry point with model identifier m has model m, for a buffered call (one
\* event, as in the m1 scenario) and for a synchronously streamed one.
C11_ChatCompletionEventHasModel ==
  entry = "chat_completion" =>
    /\ AllLLMRecorded(LAMBDA ev : ev.model = kwargs.model_id)
    /\ (pc = "done" /\ IsBuffered /\ response.shape = "ok"
          /\ AllObjects(kwargs.messages)) =>
         Len(LLMEvents(recorded)) = 1

\* C12: in each call shape a message list given as objects or as mapping
\* records is normalized to the same list of {content, role} pairs in the
\* emitted LLM event; neither representation causes a fault or a lost event.
C12_EitherMessageShapeIsNormalized ==
  /\ (JustHandled /\ Terminal(Last(source)) /\ source[1].shape = "ok"
        /\ ErrorEvents(SubSeq(recorded, 1, Len(recorded) - 1)) = <<>>) =>
       /\ EmittedNow
       /\ Last(recorded).event.prompt = NormalizedPrompt(kwargs.messages)
  /\ (pc = "done" /\ IsBuffered /\ response.shape = "ok" /\ metadata.has) =>
       /\ EmittedNow
       /\ Last(recorded).event.prompt = NormalizedPrompt(kwargs.messages)

\* C14: the session is optional.  Every event handed to the recorder for a
\* call is recorded to the session the call was given and carries its
\* identifier (none when no session was passed), and an event is emitted
\* whether or not a session was passed.
C14_SessionIsOptional ==
  /\ AllRecorded(LAMBDA e : e.session = session)
  /\ AllLLMRecorded(LAMBDA ev : ev.session_id = session)
  /\ AllRecorded(LAMBDA e : e.kind = "error" => e.event.session_id = session)
  /\ (JustHandled /\ Terminal(Last(source))) => Len(recorded) >= 1
  /\ (pc = "done" /\ IsBuffered) => Len(recorded) = 1

C14_Witness ==
  /\ session = PyNone
  /\ JustHandled /\ Terminal(Last(source))
  /\ EmittedNow
  /\ Last(recorded).event.session_id = PyNone

\* C15: every LLM event handed to the recorder is finalized: its completion
\* is assigned (an empty text included) and its end timestamp is set, a turn
\* that reaches turn_complete without an inference fragment included.
C15_EveryLLMEventIsFinalized ==
  AllLLMRecorded(LAMBDA ev : ev.completion.some /\ ev.end_timestamp # PyNone)

\* C18: through the patched create_turn the LLM event emitted at turn_complete
\* has the agent's configured model when the configuration has one and the
\* label "Unable to identify model" when it has none.
C18_TurnModelIsConfiguredOrFallback ==
  entry = "create_turn" =>
    AllLLMRecorded(LAMBDA ev :
      ev.model = IF metadata.model_id # PyNone
                 THEN metadata.model_id
                 ELSE "Unable to identify model")

\* C19: the streamed paths are lazy.  Before the caller iterates nothing has
\* been taken from the underlying sequence and nothing recorded, and at every
\* point the fragments taken are at most the fragments yielded plus one.
C19_LazyPassThrough ==
  (IsSync \/ IsAsync) =>
    /\ Len(source) <= Len(yielded) + 1
    /\ source = <<>> => recorded = <<>> /\ llm_event = LLMEvent(session)

C19_Witness ==
  /\ IsSync
  /\ pc = "handled"
  /\ Len(yielded) = 1
  /\ Len(source) = 2

\* C20: an LLM event is recorded before the caller receives the result that
\* completes the call: in a buffered call within the step that returns the
\* response, in a streamed call while the terminal fragment is taken and not
\* yet yielded; yielding a fragment records nothing.
C20_RecordedBeforeResult ==
  [][/\ Len(yielded') > Len(yielded) => recorded' = recorded
     /\ Len(LLMEvents(recorded')) > Len(LLMEvents(recorded)) =>
          \/ /\ TakesFragment
             /\ Terminal(Taken)
             /\ pc' = "handled"
             /\ Len(yielded') = Len(source') - 1
          \/ /\ pc = "idle"
             /\ pc' = "done"
             /\ result' = Returned(response')]_vars

C20_Witness ==
  /\ pc = "handled"
  /\ Terminal(Last(source))
  /\ EmittedNow
  /\ Len(yielded) = Len(source) - 1

\* What call cl's handlers do when its first n fragments are iterated alone:
\* a fresh call record, the call's own fragments, a recorder of its own.
RECURSIVE IteratedAlone(_, _)
IteratedAlone(cl, n) ==
  IF n = 0
  THEN [ev |-> LLMEvent(cl.session), heap |-> <<>>, recorded |-> <<>>, raised |-> FALSE]
  ELSE LET prev == IteratedAlone(cl, n - 1) IN
       IF cl.kind = "sync"
       THEN handle_stream_chunk(prev.ev, Append(prev.heap, cl.source[n]),
                                prev.recorded, cl.kwargs, cl.session, n)
       ELSE handle_stream_agent(prev.ev, Append(prev.heap, cl.source[n]),
                                prev.recorded, cl.kwargs, cl.session, cl.metadata, n)

\* C13: with two calls outstanding at once and their fragments iterated in
\* any interleaving, the events emitted for each call (count, completion,
\* prompt, model, session id) and its call record are those of that call's
\* sequence iterated alone; the shared recorder holds exactly these events.
C13_ConcurrentCallsAreIsolated ==
  /\ \A c \in Calls :
       LET alone == IteratedAlone(calls[c], Len(calls[c].source)) IN
       /\ calls[c].emitted = alone.recorded
       /\ calls[c].llm_event = alone.ev
       /\ calls[c].heap = alone.heap
  /\ Len(log) = Len(calls[1].emitted) + Len(calls[2].emitted)

C13_Witness ==
  /\ \A c \in Calls :
       /\ calls[c].pc = "handled"
       /\ Len(calls[c].source) = 2
       /\ Len(calls[c].yielded) = 1
       /\ Len(calls[c].emitted) = 1
       /\ calls[c].emitted[1].kind = "llm"
  /\ calls[1].kind = "sync"
  /\ calls[2].kind = "async"
  /\ calls[1].session # calls[2].session
  /\ log = calls[2].emitted \o calls[1].emitted

OverrideThenUndo ==
  /\ Len(ops) >= 2
  /\ ops[Len(ops) - 1] = "override"
  /\ ops[Len(ops)] = "undo_override"
OverrideTwice ==
  /\ Len(ops) >= 2
  /\ ops[Len(ops) - 1] = "override"
  /\ ops[Len(ops)] = "override"

\* C16: after override() followed by undo_override(), chat_completion and
\* create_turn are the library's own functions again, and a call made then
\* emits no events.
C16_UndoRestoresOriginals ==
  OverrideThenUndo =>
    /\ chat_completion = "original"
    /\ create_turn = "original"
    /\ pc # "idle" => recorded = <<>> /\ result.kind \in {"response", "library_stream"}

\* C17: after override() called twice with no undo_override() between, the
\* stored originals are still the library's own functions and a later call
\* runs the library's function once, does not fail, and records at most one
\* LLM event.
C17_DoubleOverrideIsSingleLayer ==
  OverrideTwice =>
    /\ original_complete = "original"
    /\ original_create_turn = "original"
    /\ pc # "idle" =>
         /\ original_calls = 1
         /\ pc # "raised"
         /\ Len(LLMEvents(recorded)) <= 1
====
